---- MODULE Spec2Model ----
(***************************************************************************)
(* Model of packages/scheduler/src/Scheduler.ts: the cooperative scheduler *)
(* with a ready queue (taskQueue), a delayed queue (timerQueue), the host  *)
(* timeout, the message-channel turn driver and the time-sliced work loop. *)
(*                                                                         *)
(* JavaScript runs every handler to completion, so each entry point of the *)
(* module (scheduleCallback, cancelCallback, the setTimeout closure, the   *)
(* port1.onmessage handler) is one atomic action.  A handler is computed   *)
(* by an operator over a record holding the module's variables.            *)
(***************************************************************************)
EXTENDS Integers, Sequences, FiniteSets, TLC

\* ---------------------------------------------------------------- bounds
MaxTasks == 2          \* scheduleCallback is called at most this many times
MaxTime == 1           \* the host lets the clock idle up to this value

\* ------------------------------------------------------- program constants
frameInterval == 5

ImmediatePriority == 1
UserBlockingPriority == 2
NormalPriority == 3
LowPriority == 4
IdlePriority == 5

maxSigned31BitInt == 1073741823

\* SchedulerPriorities.getTimeoutByPriorityLevel (section 4.1/6 of the spec)
getTimeoutByPriorityLevel(priorityLevel) ==
  CASE priorityLevel = ImmediatePriority -> 0
    [] priorityLevel = UserBlockingPriority -> 250
    [] priorityLevel = NormalPriority -> 5000
    [] priorityLevel = LowPriority -> 10000
    [] OTHER -> maxSigned31BitInt

\* ------------------------------------------------------------ JS values
null == -1                 \* a null task reference (peek/pop of an empty heap)
undefined == -2            \* an undefined number (startTime before the first turn)
NoCallback == "null"       \* task.callback === null
NoHostCallback == "null"   \* scheduledHostCallback unset / null

\* The callbacks a caller may submit.  A callback is described by what it
\* does when invoked: how long it runs and what it returns.
\*   plain   returns undefined at once
\*   slow    runs for frameInterval, returns undefined
\*   cont    returns a function (the continuation "resume")
\*   throw   throws
\*   spawn   calls scheduleCallback(ImmediatePriority, plain) while the
\*           bound on submissions allows, returns undefined
\*   cancelcont  calls cancelCallback on its own task, returns a function
\*   resume  the continuation installed by cont and cancelcont: returns
\*           undefined at once
Callbacks == {"plain", "slow", "cont", "throw", "spawn", "cancelcont"}

Dur(cb) == IF cb = "slow" THEN frameInterval ELSE 0

Outcome(cb) ==
  CASE cb \in {"cont", "cancelcont"} -> "function"
    [] cb = "throw" -> "throw"
    [] OTHER -> "undefined"

Priorities == {ImmediatePriority, IdlePriority}

\* What callers submit: any priority and callback with no delay, and plain
\* callbacks of any priority with a delay of 1 or 2 (two delays, so that a
\* later submission can become the delayed queue's root).
Submissions ==
  (Priorities \X Callbacks \X {0}) \cup (Priorities \X {"plain"} \X {1, 2})

VARIABLES
  now,                       \* getCurrentTime()
  taskIdCounter,
  isHostCallbackScheduled,
  isHostTimeoutScheduled,
  isPerformingWork,
  isMessageLoopRunning,
  scheduledHostCallback,
  taskTimeoutId,
  startTime,                 \* start of the current time slice
  tasks,                     \* the Task objects, by id
  taskQueue,                 \* heap array of task ids
  timerQueue,                \* heap array of task ids
  hostTimers,                \* setTimeout calls neither fired nor cleared
  msgPending,                \* messages posted on port2, not yet delivered
  log,                       \* history: every callback invocation
  promotedAt,                \* history: the time a task was promoted at
  cancelledIn,               \* history: the queue a task was cancelled in
                             \*          before any invocation of it
  flushCount,                \* history: number of flushWork invocations
  returned,                  \* history: what scheduleCallback last returned
  hostErrors                 \* history: exceptions that reached the host

vars == <<now, taskIdCounter, isHostCallbackScheduled, isHostTimeoutScheduled,
          isPerformingWork, isMessageLoopRunning, scheduledHostCallback,
          taskTimeoutId, startTime, tasks, taskQueue, timerQueue, hostTimers,
          msgPending, log, promotedAt, flushCount, cancelledIn,
          returned, hostErrors>>

\* The module's variables as one record, for the handler operators.
State ==
  [now |-> now, taskIdCounter |-> taskIdCounter,
   isHostCallbackScheduled |-> isHostCallbackScheduled,
   isHostTimeoutScheduled |-> isHostTimeoutScheduled,
   isPerformingWork |-> isPerformingWork,
   isMessageLoopRunning |-> isMessageLoopRunning,
   scheduledHostCallback |-> scheduledHostCallback,
   taskTimeoutId |-> taskTimeoutId, startTime |-> startTime,
   tasks |-> tasks, taskQueue |-> taskQueue, timerQueue |-> timerQueue,
   hostTimers |-> hostTimers, msgPending |-> msgPending, log |-> log,
   promotedAt |-> promotedAt, flushCount |-> flushCount]

\* ------------------------------------------------------------- min-heap
\* SchedulerMinHeap (section 4.2 of the spec): array-backed binary heap of
\* task references, keyed by (sortIndex, id).
compare(T, a, b) ==
  LET diff == T[a].sortIndex - T[b].sortIndex
  IN IF diff # 0 THEN diff ELSE T[a].id - T[b].id

peek(heap) == IF Len(heap) = 0 THEN null ELSE heap[1]

Swap(heap, i, j) == [heap EXCEPT ![i] = heap[j], ![j] = heap[i]]

RECURSIVE siftUp(_, _, _)
siftUp(T, heap, i) ==
  IF i <= 1 THEN heap
  ELSE LET p == i \div 2
       IN IF compare(T, heap[p], heap[i]) > 0
          THEN siftUp(T, Swap(heap, p, i), p)
          ELSE heap

push(T, heap, node) == siftUp(T, Append(heap, node), Len(heap) + 1)

RECURSIVE siftDown(_, _, _)
siftDown(T, heap, i) ==
  LET n == Len(heap)
      l == 2 * i
      r == 2 * i + 1
  IN IF l > n THEN heap
     ELSE IF compare(T, heap[l], heap[i]) < 0
          THEN IF r <= n /\ compare(T, heap[r], heap[l]) < 0
               THEN siftDown(T, Swap(heap, i, r), r)
               ELSE siftDown(T, Swap(heap, i, l), l)
          ELSE IF r <= n /\ compare(T, heap[r], heap[i]) < 0
               THEN siftDown(T, Swap(heap, i, r), r)
               ELSE heap

\* the heap left by pop(heap); the value popped is peek(heap)
pop(T, heap) ==
  IF Len(heap) <= 1 THEN <<>>
  ELSE siftDown(T, <<heap[Len(heap)]>> \o SubSeq(heap, 2, Len(heap) - 1), 1)

\* F(x), with x evaluated once before F is applied to it
Strict(F(_), x) == CHOOSE r \in {F(y) : y \in {x}} : TRUE

\* ------------------------------------------------------- host timeout
\* setTimeout returns an id no outstanding timer has and that taskTimeoutId
\* does not hold (real ids only grow, so a stale id never names a new timer).
FreshTimerId(s) ==
  CHOOSE i \in 1..(Cardinality(s.hostTimers) + 2) :
    /\ i # s.taskTimeoutId
    /\ \A tm \in s.hostTimers : tm.id # i

requestHostTimeout(s, handler, timeout) ==
  IF s.isHostTimeoutScheduled = FALSE
  THEN LET id == FreshTimerId(s)
       IN [s EXCEPT !.isHostTimeoutScheduled = TRUE,
                    !.taskTimeoutId = id,
                    !.hostTimers = @ \cup {[id |-> id, handler |-> handler,
                                            fireAt |-> s.now + timeout]}]
  ELSE s

cancelHostTimeout(s) ==
  [s EXCEPT !.hostTimers = {tm \in @ : tm.id # s.taskTimeoutId},
            !.taskTimeoutId = -1]

requestHostCallback(s, callback) ==
  [s EXCEPT !.scheduledHostCallback = callback]

schedulePerformWorkUntilDeadline(s) ==
  [s EXCEPT !.msgPending = @ + 1]

\* a <= b and a > b on numbers where b may be undefined (both are false then)
JsLeq(a, b) == b # undefined /\ a <= b
JsGt(a, b) == b # undefined /\ a > b

\* ------------------------------------------------------ timer promotion
\* mutant of timerDue: the start time is not compared
timerDue_always(task, currentTime) == TRUE

\* mutant of timerDue: a task starting exactly at currentTime is not due
timerDue_strict(task, currentTime) ==
  currentTime # undefined /\ task.startTime < currentTime

\* line 123: the delayed queue's root has reached its start time
timerDue(task, currentTime) == JsLeq(task.startTime, currentTime)

\* mutant of promotedSortIndex: the heap key is left as it was
promotedSortIndex_keep(task) == task.sortIndex

\* line 125: the heap key of a task promoted to the ready queue
promotedSortIndex(task) == task.expirationTime

RECURSIVE advanceTimers(_, _)
advanceTimers(s0, currentTime) == Strict(LAMBDA s :
  LET top == peek(s.timerQueue)
  IN IF top = null THEN s
     ELSE IF s.tasks[top].callback = NoCallback
          THEN advanceTimers(
                 [s EXCEPT !.timerQueue = pop(s.tasks, s.timerQueue)],
                 currentTime)
     ELSE IF timerDue(s.tasks[top], currentTime)
          THEN LET T == [s.tasks EXCEPT ![top].sortIndex =
                                           promotedSortIndex(s.tasks[top])]
               IN advanceTimers(
                    [s EXCEPT !.timerQueue = pop(s.tasks, s.timerQueue),
                              !.tasks = T,
                              !.taskQueue = push(T, s.taskQueue, top),
                              !.promotedAt = (top :> currentTime) @@ @],
                    currentTime)
     ELSE s, s0)

\* ---------------------------------------------------------- submission
\* mutant of readySortIndex: the ready queue keyed by start time
readySortIndex_start(start, expirationTime) == start

\* mutant of prepareHostTimeout: the armed timeout is forgotten, not cleared
prepareHostTimeout_nocancel(s) ==
  [s EXCEPT !.isHostTimeoutScheduled = FALSE]

\* lines 56 and 74: the heap key of a new task in the delayed / ready queue
timerSortIndex(start, expirationTime) == start
readySortIndex(start, expirationTime) == expirationTime

\* lines 62-67: before arming the timeout for a new earliest delayed task
prepareHostTimeout(s) ==
  IF s.isHostTimeoutScheduled = TRUE
  THEN cancelHostTimeout(s)
  ELSE [s EXCEPT !.isHostTimeoutScheduled = TRUE]

\* The state after scheduleCallback(priorityLevel, callback, {delay}).
scheduleCallback(s, priorityLevel, callback, delay) ==
  LET currentTime == s.now
      start == currentTime + delay
      expirationTime == start + getTimeoutByPriorityLevel(priorityLevel)
      id == s.taskIdCounter
      task == [id |-> id, priorityLevel |-> priorityLevel,
               callback |-> callback, startTime |-> start,
               expirationTime |-> expirationTime, sortIndex |-> 0]
      s0 == [s EXCEPT !.taskIdCounter = @ + 1]
  IN IF start > currentTime
     THEN LET T == (id :> [task EXCEPT !.sortIndex =
                                  timerSortIndex(start, expirationTime)])
                    @@ s0.tasks
              s1 == [s0 EXCEPT !.tasks = T,
                               !.timerQueue = push(T, s0.timerQueue, id)]
          IN IF peek(s1.taskQueue) = null /\ id = peek(s1.timerQueue)
             THEN requestHostTimeout(prepareHostTimeout(s1), "handleTimeout",
                                     start - currentTime)
             ELSE s1
     ELSE LET T == (id :> [task EXCEPT !.sortIndex =
                                  readySortIndex(start, expirationTime)])
                    @@ s0.tasks
              s1 == [s0 EXCEPT !.tasks = T,
                               !.taskQueue = push(T, s0.taskQueue, id)]
          IN IF ~s1.isHostCallbackScheduled /\ ~s1.isPerformingWork
             THEN requestHostCallback(
                    [s1 EXCEPT !.isHostCallbackScheduled = TRUE], "flushWork")
             ELSE s1

\* what scheduleCallback returns: the function has no return statement
scheduleCallbackResult(s, priorityLevel, callback, delay) == undefined

\* -------------------------------------------------------- cancellation
\* mutant of cancelCallback: the callback slot is left as it is
cancelCallback_skip(s, task) == s

\* mutant of cancelCallback: the task is also taken out of the queues
cancelCallback_remove(s, task) ==
  [s EXCEPT !.tasks[task].callback = NoCallback,
            !.taskQueue = SelectSeq(@, LAMBDA t : t # task),
            !.timerQueue = SelectSeq(@, LAMBDA t : t # task)]

cancelCallback(s, task) ==
  [s EXCEPT !.tasks[task].callback = NoCallback]

\* ------------------------------------------------------- timeout handler
\* mutant of handleTimeout: the timeout-scheduled flag is not cleared
handleTimeout_keepFlag(s, currentTime) ==
  LET s1 == advanceTimers(s, currentTime)
  IN IF ~s1.isHostCallbackScheduled
     THEN IF peek(s1.taskQueue) # null
          THEN requestHostCallback(
                 [s1 EXCEPT !.isHostCallbackScheduled = TRUE], "flushWork")
          ELSE LET top == peek(s1.timerQueue)
               IN IF top # null
                  THEN requestHostTimeout(s1, "handleTimeout",
                                          s1.tasks[top].startTime - currentTime)
                  ELSE s1
     ELSE s1

handleTimeout(s, currentTime) ==
  LET s1 == advanceTimers([s EXCEPT !.isHostTimeoutScheduled = FALSE],
                          currentTime)
  IN IF ~s1.isHostCallbackScheduled
     THEN IF peek(s1.taskQueue) # null
          THEN requestHostCallback(
                 [s1 EXCEPT !.isHostCallbackScheduled = TRUE], "flushWork")
          ELSE LET top == peek(s1.timerQueue)
               IN IF top # null
                  THEN requestHostTimeout(s1, "handleTimeout",
                                          s1.tasks[top].startTime - currentTime)
                  ELSE s1
     ELSE s1

\* ------------------------------------------------------------ work loop
\* mutant of shouldYieldToHost: the slice never ends
shouldYieldToHost_never(s) == FALSE

shouldYieldToHost(s) ==
  LET timeElapsed == s.now - s.startTime
  IN s.startTime # undefined /\ timeElapsed >= frameInterval

\* mutant of mustYield: the deadline of the root is not looked at
mustYield_anyRoot(s, currentTask, currentTime) == shouldYieldToHost(s)

\* line 195: the loop stops before the root
mustYield(s, currentTask, currentTime) ==
  /\ JsGt(s.tasks[currentTask].expirationTime, currentTime)
  /\ shouldYieldToHost(s)

\* mutant of takeCallback: the slot keeps the callback while it runs
takeCallback_keep(s, currentTask) == s

\* line 202: the callback is taken out of the task before it is called
takeCallback(s, currentTask) ==
  [s EXCEPT !.tasks[currentTask].callback = NoCallback]

\* the tasks in the ready queue whose callback slot is not empty, and the
\* task being invoked (its slot was emptied just before the call)
Pending(s) ==
  {s.taskQueue[i] : i \in 1..Len(s.taskQueue)}
    \ {t \in DOMAIN s.tasks : s.tasks[t].callback = NoCallback
                               /\ t # peek(s.taskQueue)}

\* what the body of a callback does to the scheduler while it runs
Body(s, task, callback) ==
  CASE callback = "spawn" ->
         IF s.taskIdCounter < MaxTasks
         THEN Strict(LAMBDA s0 : scheduleCallback(s0, ImmediatePriority,
                                                  "plain", 0), s)
         ELSE s
    [] callback = "cancelcont" -> cancelCallback(s, task)
    [] OTHER -> s

\* callback() at line 203: the body runs, the clock runs for the callback's
\* duration and the invocation is recorded in the history (with the slice
\* start, and whether the task is the ready root when the callback returns).
Returned(s1, s, task, callback) ==
  [s1 EXCEPT !.now = @ + Dur(callback),
             !.log = Append(@, [task |-> task, fn |-> callback,
                                time |-> s.now, flush |-> s.flushCount,
                                slice |-> s.startTime,
                                root |-> task = peek(s1.taskQueue),
                                ready |-> Pending(s)])]

Invoke(s, task, callback) ==
  Returned(Body(s, task, callback), s, task, callback)

\* mutant of reinstall: the continuation is not stored in the task
reinstall_drop(s, task, continuationCallback, currentTime) ==
  advanceTimers(s, currentTime)

\* lines 206-207: a callback returned a function
reinstall(s, task, continuationCallback, currentTime) ==
  advanceTimers([s EXCEPT !.tasks[task].callback = continuationCallback],
                currentTime)

\* The while loop of workLoop and what follows it, entered with the given
\* currentTime.  The result is the state with the value returned in .ret
\* ("true", "false", or "throw" when a callback threw).
RECURSIVE workLoopFrom(_, _)

\* lines 204-216: after callback() has returned (or thrown), with s1 the
\* state it left
afterCallback(s1, currentTask, callback, t1) ==
  IF Outcome(callback) = "throw"
  THEN [st |-> s1, ret |-> "throw"]
  ELSE IF Outcome(callback) = "function"
  THEN [st |-> reinstall(s1, currentTask, "resume", t1), ret |-> "true"]
  ELSE workLoopFrom(
         advanceTimers(IF currentTask = peek(s1.taskQueue)
                       THEN [s1 EXCEPT !.taskQueue = pop(s1.tasks, s1.taskQueue)]
                       ELSE s1, t1), t1)

\* getCurrentTime() at line 204
afterInvoke(s1, currentTask, callback) ==
  afterCallback(s1, currentTask, callback, s1.now)

workLoopFrom(s0, currentTime) == Strict(LAMBDA s :
  LET currentTask == peek(s.taskQueue)
  IN IF currentTask = null
     THEN \* lines 219-227, currentTask === null
          LET top == peek(s.taskQueue)
          IN IF top # null
             THEN [st |-> requestHostTimeout(s, "flushWork",
                            IF currentTime = undefined THEN 0
                            ELSE s.tasks[top].startTime - currentTime),
                   ret |-> "false"]
             ELSE [st |-> s, ret |-> "false"]
     ELSE IF mustYield(s, currentTask, currentTime)
          THEN [st |-> s, ret |-> "true"]
     ELSE LET callback == s.tasks[currentTask].callback
          IN IF callback = NoCallback
             THEN workLoopFrom(
                    [s EXCEPT !.taskQueue = pop(s.tasks, s.taskQueue)],
                    currentTime)
             ELSE afterInvoke(Invoke(takeCallback(s, currentTask),
                                     currentTask, callback),
                              currentTask, callback), s0)

workLoop(s, hasTimeRemaining, initialTime) ==
  workLoopFrom(advanceTimers(s, initialTime), initialTime)

\* mutant of flushWork: isPerformingWork is reset only on a normal return
flushWork_nofinally(s, hasTimeRemaining, initialTime) ==
  LET s1 == [s EXCEPT !.isHostCallbackScheduled = FALSE,
                      !.flushCount = @ + 1]
      s2 == IF s1.isHostTimeoutScheduled
            THEN cancelHostTimeout([s1 EXCEPT !.isHostTimeoutScheduled = FALSE])
            ELSE s1
      r == workLoop([s2 EXCEPT !.isPerformingWork = TRUE],
                    hasTimeRemaining, initialTime)
  IN IF r.ret = "throw" THEN r ELSE [r EXCEPT !.st.isPerformingWork = FALSE]

flushWork(s, hasTimeRemaining, initialTime) ==
  LET s1 == [s EXCEPT !.isHostCallbackScheduled = FALSE,
                      !.flushCount = @ + 1]
      s2 == IF s1.isHostTimeoutScheduled
            THEN cancelHostTimeout([s1 EXCEPT !.isHostTimeoutScheduled = FALSE])
            ELSE s1
      r == workLoop([s2 EXCEPT !.isPerformingWork = TRUE],
                    hasTimeRemaining, initialTime)
  IN [r EXCEPT !.st.isPerformingWork = FALSE]

\* ---------------------------------------------------------- turn driver
performWorkUntilDealine(s) ==
  IF s.scheduledHostCallback # NoHostCallback
  THEN LET currentTime == s.now
           r == flushWork([s EXCEPT !.startTime = currentTime], TRUE, currentTime)
           hasMoreWork == r.ret # "false"
       IN [r EXCEPT !.st = IF hasMoreWork
                           THEN schedulePerformWorkUntilDeadline(r.st)
                           ELSE [r.st EXCEPT !.isMessageLoopRunning = FALSE,
                                             !.scheduledHostCallback =
                                               NoHostCallback]]
  ELSE [st |-> [s EXCEPT !.isMessageLoopRunning = FALSE], ret |-> "none"]

\* the closure handed to setTimeout at line 90: handler(getCurrentTime())
timeoutClosure(s, handler) ==
  IF handler = "handleTimeout"
  THEN [st |-> handleTimeout(s, s.now), ret |-> "none"]
  ELSE flushWork(s, s.now, undefined)

\* --------------------------------------------------------------- actions
\* Writes a handler's resulting record back to the variables.
Install(s) ==
  /\ now' = s.now
  /\ taskIdCounter' = s.taskIdCounter
  /\ isHostCallbackScheduled' = s.isHostCallbackScheduled
  /\ isHostTimeoutScheduled' = s.isHostTimeoutScheduled
  /\ isPerformingWork' = s.isPerformingWork
  /\ isMessageLoopRunning' = s.isMessageLoopRunning
  /\ scheduledHostCallback' = s.scheduledHostCallback
  /\ taskTimeoutId' = s.taskTimeoutId
  /\ startTime' = s.startTime
  /\ tasks' = s.tasks
  /\ taskQueue' = s.taskQueue
  /\ timerQueue' = s.timerQueue
  /\ hostTimers' = s.hostTimers
  /\ msgPending' = s.msgPending
  /\ log' = s.log
  /\ promotedAt' = s.promotedAt
  /\ flushCount' = s.flushCount

\* A handler's result reaches the host: an exception it threw is counted.
\* (The actions bind a handler's result with \E over a singleton, so that it
\* is computed once.)
Finish(r) ==
  /\ Install(r.st)
  /\ hostErrors' = IF r.ret = "throw" THEN hostErrors + 1 ELSE hostErrors

Init ==
  /\ now = 0
  /\ taskIdCounter = 0
  /\ isHostCallbackScheduled = FALSE
  /\ isHostTimeoutScheduled = FALSE
  /\ isPerformingWork = FALSE
  /\ isMessageLoopRunning = FALSE
  /\ scheduledHostCallback = NoHostCallback
  /\ taskTimeoutId = -1
  /\ startTime = undefined
  /\ tasks = <<>>
  /\ taskQueue = <<>>
  /\ timerQueue = <<>>
  /\ hostTimers = {}
  /\ msgPending = 0
  /\ log = <<>>
  /\ promotedAt = <<>>
  /\ cancelledIn = <<>>
  /\ flushCount = 0
  /\ returned = null
  /\ hostErrors = 0

\* a caller submits a task
Submit(priorityLevel, callback, delay) ==
  /\ taskIdCounter < MaxTasks
  /\ \E s \in {scheduleCallback(State, priorityLevel, callback, delay)} :
       Install(s)
  /\ returned' = scheduleCallbackResult(State, priorityLevel, callback, delay)
  /\ UNCHANGED <<cancelledIn, hostErrors>>

ScheduleCallback ==
  \E sub \in Submissions : Submit(sub[1], sub[2], sub[3])

InQueue(heap, task) == \E i \in 1..Len(heap) : heap[i] = task

\* every invocation the history holds of a task
Invocations(task) == {i \in 1..Len(log) : log[i].task = task}

\* where a task is: waiting, ready and never invoked, or already started
Whereabouts(task) ==
  IF Invocations(task) # {} THEN "started"
  ELSE IF InQueue(timerQueue, task) THEN "timerQueue"
  ELSE IF InQueue(taskQueue, task) THEN "taskQueue"
  ELSE "none"

\* a caller cancels a task it holds a reference to
Cancel(task) ==
  /\ \E s \in {cancelCallback(State, task)} : Install(s)
  /\ cancelledIn' = IF task \in DOMAIN cancelledIn
                       \/ Whereabouts(task) \notin {"timerQueue", "taskQueue"}
                    THEN cancelledIn
                    ELSE (task :> Whereabouts(task)) @@ cancelledIn
  /\ UNCHANGED <<returned, hostErrors>>

CancelCallback == \E task \in DOMAIN tasks : Cancel(task)

\* time passes while no handler runs
Tick ==
  /\ now < MaxTime
  /\ now' = now + 1
  /\ UNCHANGED <<taskIdCounter, isHostCallbackScheduled, isHostTimeoutScheduled,
                 isPerformingWork, isMessageLoopRunning, scheduledHostCallback,
                 taskTimeoutId, startTime, tasks, taskQueue, timerQueue,
                 hostTimers, msgPending, log, promotedAt, flushCount, cancelledIn,
                 returned, hostErrors>>

\* the host delivers a message posted on port2 to port1.onmessage
OnMessage ==
  /\ msgPending > 0
  /\ \E r \in {performWorkUntilDealine([State EXCEPT !.msgPending = @ - 1])} :
       Finish(r)
  /\ UNCHANGED <<cancelledIn, returned>>

\* the host fires an outstanding setTimeout whose delay has elapsed
OnTimeout ==
  \E tm \in hostTimers :
    /\ now >= tm.fireAt
    /\ \E r \in {timeoutClosure([State EXCEPT !.hostTimers = @ \ {tm}],
                               tm.handler)} : Finish(r)
    /\ UNCHANGED <<cancelledIn, returned>>

\* The wiring never posts the first message nor arms the first timeout (see
\* the claims C1 and C2), so the two handlers are also exercised by a host
\* that calls them unrequested, when nothing of that kind is outstanding.
DriveTurn ==
  /\ msgPending = 0
  /\ \E r \in {performWorkUntilDealine(State)} : Finish(r)
  /\ UNCHANGED <<cancelledIn, returned>>

DriveTimeout ==
  /\ hostTimers = {}
  /\ \E r \in {timeoutClosure(State, "handleTimeout")} : Finish(r)
  /\ UNCHANGED <<cancelledIn, returned>>

Next ==
  \/ ScheduleCallback
  \/ CancelCallback
  \/ Tick
  \/ OnMessage
  \/ OnTimeout
  \/ DriveTurn
  \/ DriveTimeout

Spec == Init /\ [][Next]_vars

FairSpec == Spec /\ WF_vars(Tick) /\ WF_vars(OnMessage) /\ WF_vars(OnTimeout)

\* ------------------------------------------------------------ properties
Tasks == DOMAIN tasks

Invoked(task) == Invocations(task) # {}

\* the heap key of a task: (sortIndex, id), compared lexicographically
KeyLess(a, b) ==
  \/ tasks[a].sortIndex < tasks[b].sortIndex
  \/ tasks[a].sortIndex = tasks[b].sortIndex /\ tasks[a].id < tasks[b].id

\* C1: whenever scheduleCallback submits a task with no delay while no host
\* callback is scheduled and no flush is in progress, a next-turn request
\* (a message posted on the channel) is issued.
C1_NextTurnRequested ==
  [][\A priorityLevel \in Priorities, callback \in Callbacks :
       (/\ ~isHostCallbackScheduled
        /\ ~isPerformingWork
        /\ Submit(priorityLevel, callback, 0))
       => msgPending' > 0]_vars

\* C2: every task submitted with delay > 0 and never cancelled is, once the
\* clock has passed its startTime, eventually promoted and its callback
\* invoked, the host firing every armed timeout and delivering every
\* requested turn.
C2_DelayedEventuallyRuns ==
  \A task \in 0..(MaxTasks - 1) :
    (/\ task \in Tasks
     /\ InQueue(timerQueue, task)
     /\ tasks[task].callback # NoCallback
     /\ now >= tasks[task].startTime)
    ~> (task \in Tasks
        /\ (Invoked(task) \/ tasks[task].callback = NoCallback))

\* C3: a task submitted with delay > 0 is not in the ready queue, and its
\* callback has not been invoked, at any clock value below its startTime;
\* a step takes a task from the delayed queue to the ready queue only as a
\* promotion by advanceTimers(t) with startTime <= t.
C3_State ==
  \A task \in Tasks :
    /\ now < tasks[task].startTime
         => ~InQueue(taskQueue, task) /\ ~Invoked(task)
    /\ \A i \in Invocations(task) : log[i].time >= tasks[task].startTime
    /\ task \in DOMAIN promotedAt
         => promotedAt[task] >= tasks[task].startTime

C3_NotBeforeStartTime ==
  [][/\ C3_State'
     /\ \A task \in Tasks :
          (InQueue(timerQueue, task) /\ InQueue(taskQueue', task))
          => /\ task \in DOMAIN promotedAt'
             /\ ~InQueue(timerQueue', task)
             /\ tasks'[task].startTime <= now']_vars

\* a delayed task waited through a flush that ran another task's callback
\* before its startTime, and was promoted and invoked later
C3_Witness ==
  \E task \in DOMAIN promotedAt :
    /\ Invoked(task)
    /\ \E i \in 1..Len(log) :
         /\ log[i].task > task
         /\ log[i].time < tasks[task].startTime

\* C4: a task cancelled before the work loop has invoked its callback is
\* never invoked afterwards, whichever queue it was in; cancelled in the
\* delayed queue it is never promoted either.
C4_CancelledNeverRuns ==
  \A task \in DOMAIN cancelledIn :
    /\ ~Invoked(task)
    /\ tasks[task].callback = NoCallback
    /\ cancelledIn[task] = "timerQueue"
         => ~InQueue(taskQueue, task) /\ task \notin DOMAIN promotedAt

\* one task cancelled in each queue, both discarded since, while a callback
\* of neither has run
C4_Witness ==
  \E a, b \in DOMAIN cancelledIn :
    /\ cancelledIn[a] = "timerQueue"
    /\ cancelledIn[b] = "taskQueue"
    /\ \A task \in {a, b} :
         ~InQueue(taskQueue, task) /\ ~InQueue(timerQueue, task)
    /\ flushCount > 0

\* C5: the callback the work loop invokes belongs to the least (sortIndex,
\* id) among the uncancelled tasks then in the ready queue, whatever the
\* order of submission; an Immediate task runs before an Idle task
\* submitted with no delay at the same instant.
C5_ReadyOrder ==
  \A i \in 1..Len(log) :
    \A other \in log[i].ready \ {log[i].task} :
      /\ ~KeyLess(other, log[i].task)
      /\ ~(/\ tasks[other].priorityLevel = ImmediatePriority
           /\ tasks[log[i].task].priorityLevel = IdlePriority
           /\ tasks[other].startTime = tasks[log[i].task].startTime
           /\ {other, log[i].task} \cap DOMAIN promotedAt = {})

\* an Idle task submitted first and an Immediate task submitted at the same
\* instant: the Immediate callback ran first
C5_Witness ==
  \E i, j \in 1..Len(log) :
    /\ i < j
    /\ log[i].task > log[j].task
    /\ tasks[log[i].task].priorityLevel = ImmediatePriority
    /\ tasks[log[j].task].priorityLevel = IdlePriority
    /\ tasks[log[i].task].startTime = tasks[log[j].task].startTime
    /\ log[j].task \in log[i].ready

\* the invocation a step has just added at the end of the history
Last(h) == h[Len(h)]

\* a step whose last invocation is of a callback with the given outcome
Ended(outcome) ==
  /\ Len(log') > Len(log)
  /\ Outcome(Last(log').fn) = outcome

\* what C6 says of the flush in which a callback returns a function: the
\* function is stored in the same task, which stays in the ready queue,
\* more work is reported (the next turn is requested), and no other callback
\* is invoked in that flush
C6_Yields ==
  /\ [][Ended("function")
        => /\ tasks'[Last(log').task].callback = "resume"
           /\ InQueue(taskQueue', Last(log').task)
           /\ msgPending' > 0]_vars
  /\ [](\A i, j \in 1..Len(log) :
          (i < j /\ Outcome(log[i].fn) = "function")
          => log[j].flush > log[i].flush)

C7_OneTimeoutOneMessage ==
  /\ Cardinality(hostTimers) <= 1
  /\ msgPending <= 1

\* a timeout is outstanding after tasks were submitted and cancelled, a
\* timeout fired and a turn was delivered
C7_Witness ==
  /\ Cardinality(hostTimers) = 1
  /\ flushCount > 0
  /\ DOMAIN cancelledIn # {}
  /\ Len(log) > 0

\* C8: when a callback throws during flushWork the exception reaches the
\* host, isPerformingWork is false afterwards, the turn handler has
\* requested the next turn with flushWork still scheduled, and the task that
\* threw is not invoked again; the tasks left in the ready queue are still
\* executed: once an exception has occurred and a turn is requested, every
\* pending callback of a ready task is invoked or cancelled.
C8_ThrowDoesNotWedge ==
  /\ [][Ended("throw")
        => /\ hostErrors' = hostErrors + 1
           /\ ~isPerformingWork'
           /\ msgPending' > 0
           /\ scheduledHostCallback' = "flushWork"]_vars
  /\ [](\A i, j \in 1..Len(log) :
          (i < j /\ Outcome(log[i].fn) = "throw") => log[j].task # log[i].task)
  /\ \A task \in 0..(MaxTasks - 1), callback \in Callbacks \cup {"resume"} :
       (/\ hostErrors > 0
        /\ msgPending > 0
        /\ task \in Tasks
        /\ InQueue(taskQueue, task)
        /\ tasks[task].callback = callback)
       ~> (task \in Tasks /\ tasks[task].callback # callback)

\* a callback threw, the exception reached the host, and a task that was
\* ready behind it was invoked in a later flush
C8_Witness ==
  \E i, j \in 1..Len(log) :
    /\ i < j
    /\ Outcome(log[i].fn) = "throw"
    /\ log[j].task \in log[i].ready
    /\ log[j].flush > log[i].flush
    /\ hostErrors > 0
    /\ ~isPerformingWork

\* C9: scheduleCallback returns the task it created.
C9_ReturnsTask ==
  taskIdCounter > 0 => returned = taskIdCounter - 1

\* C10: cancelCallback(task) changes nothing but that task's callback slot;
\* on a task whose slot is already empty it changes nothing at all.
C10_CancelFrame ==
  [][\A task \in Tasks :
       Cancel(task)
       => /\ taskQueue' = taskQueue
          /\ timerQueue' = timerQueue
          /\ DOMAIN tasks' = DOMAIN tasks
          /\ \A other \in Tasks \ {task} : tasks'[other] = tasks[other]
          /\ tasks' = [tasks EXCEPT ![task].callback = NoCallback]
          /\ (tasks[task].callback = NoCallback => tasks' = tasks)
          /\ UNCHANGED <<now, taskIdCounter, isHostCallbackScheduled,
                         isHostTimeoutScheduled, isPerformingWork,
                         isMessageLoopRunning, scheduledHostCallback,
                         taskTimeoutId, startTime, hostTimers,
                         msgPending>>]_vars

\* a cancelled task still holds the root of the ready queue, ahead of an
\* uncancelled one
C10_Witness ==
  /\ Len(taskQueue) >= 2
  /\ taskQueue[1] \in DOMAIN cancelledIn
  /\ tasks[taskQueue[1]].callback = NoCallback
  /\ tasks[taskQueue[2]].callback # NoCallback

\* the time of the slice used up when invocation i of the history began
Elapsed(i) == log[i].time - log[i].slice

\* a flush has just stopped at the yield check: its last callback returned
\* no function, the slice is used up and the ready root is not overdue
YieldedOnSlice ==
  /\ flushCount' > flushCount
  /\ Ended("undefined")
  /\ taskQueue' # <<>>
  /\ now' - startTime' >= frameInterval
  /\ tasks'[peek(taskQueue')].expirationTime > now'

\* C11: once the time elapsed since the slice start is at least
\* frameInterval, a ready root that is not overdue is not invoked in that
\* flush: workLoop reports more work (the next turn is requested with
\* flushWork still scheduled), and the root's callback is invoked in a later
\* flush (or cancelled first), the host delivering every requested turn.
C11_YieldsOnSlice ==
  /\ [](\A j \in 1..Len(log) :
          ~(/\ log[j].slice # undefined
            /\ Elapsed(j) >= frameInterval
            /\ tasks[log[j].task].expirationTime > log[j].time))
  /\ [][YieldedOnSlice
        => /\ msgPending' > 0
           /\ scheduledHostCallback' = "flushWork"
           /\ Last(log').task # peek(taskQueue')]_vars
  /\ \A task \in 0..(MaxTasks - 1), callback \in Callbacks \cup {"resume"} :
       (/\ msgPending > 0
        /\ startTime # undefined
        /\ now - startTime >= frameInterval
        /\ peek(taskQueue) = task
        /\ tasks[task].callback = callback
        /\ tasks[task].expirationTime > now)
       ~> (task \in Tasks /\ tasks[task].callback # callback)

\* a callback ran for the whole slice while a task that was not overdue was
\* ready behind it; that task was invoked in a later flush
C11_Witness ==
  \E i, j \in 1..Len(log) :
    /\ i < j
    /\ log[i].fn = "slow"
    /\ log[j].task \in log[i].ready \ {log[i].task}
    /\ log[i].time + Dur(log[i].fn) - log[i].slice >= frameInterval
    /\ tasks[log[j].task].expirationTime > log[i].time + Dur(log[i].fn)
    /\ log[j].flush > log[i].flush

\* C12: when scheduleCallback submits a delayed task while the ready queue
\* is empty and the new task becomes the delayed queue's root, exactly one
\* host timeout is outstanding on return, set to fire at the new task's
\* startTime (startTime - now() from now), whether or not one was armed
\* before.
C12_TimeoutArmedOnDelayedSubmit ==
  [][\A sub \in Submissions :
       (/\ sub[3] > 0
        /\ Submit(sub[1], sub[2], sub[3])
        /\ peek(taskQueue') = null
        /\ peek(timerQueue') = taskIdCounter)
       => \E tm \in hostTimers' :
            /\ hostTimers' = {tm}
            /\ tm.handler = "handleTimeout"
            /\ tm.fireAt = now + sub[3]]_vars

\* C13: a flush whose work loop ends with the ready queue empty and the
\* delayed queue not empty has armed a host timeout for the delayed root's
\* startTime and reported no more work (the scheduled host callback is
\* dropped and no turn is requested): a waiting delayed task is never left
\* without a timeout.
C13_FlushArmsTimeout ==
  [][(/\ flushCount' > flushCount
      /\ hostErrors' = hostErrors
      /\ taskQueue' = <<>>
      /\ timerQueue' # <<>>)
     => /\ scheduledHostCallback' = NoHostCallback
        /\ msgPending' = 0
        /\ \E tm \in hostTimers' :
             /\ hostTimers' = {tm}
             /\ tm.fireAt = tasks'[peek(timerQueue')].startTime]_vars

\* a step of handleTimeout(now): the armed timeout fires, or the host calls
\* the handler unrequested
HandleTimeoutStep == OnTimeout \/ DriveTimeout

\* the delayed root that is left has a timeout armed for its startTime
Rearmed ==
  /\ isHostTimeoutScheduled'
  /\ \E tm \in hostTimers' :
       /\ hostTimers' = {tm}
       /\ tm.handler = "handleTimeout"
       /\ tm.fireAt = tasks'[peek(timerQueue')].startTime

\* what C14 says of every handleTimeout(currentTime): advanceTimers has run
\* (what was due is in the ready queue, the delayed root that is left is not
\* due), and a host callback is requested if the ready queue is not empty
\* and none was scheduled
C14_Advanced ==
  /\ \A task \in Tasks :
       (/\ InQueue(timerQueue, task)
        /\ tasks[task].callback # NoCallback
        /\ tasks[task].startTime <= now)
       => InQueue(taskQueue', task) /\ ~InQueue(timerQueue', task)
  /\ timerQueue' # <<>> => tasks'[peek(timerQueue')].startTime > now
  /\ (taskQueue' # <<>> /\ ~isHostCallbackScheduled)
       => /\ isHostCallbackScheduled'
          /\ scheduledHostCallback' = "flushWork"
          /\ ~isHostTimeoutScheduled'
          /\ hostTimers' = {}

\* C14 (as claimed): handleTimeout clears the timeout-scheduled flag, runs
\* advanceTimers and requests a host callback as C14_Advanced says, and in
\* every other case where the delayed queue is not empty, a host callback
\* being already scheduled included, it re-arms a host timeout for the
\* delayed root's remaining delay.
C14_HandleTimeout ==
  [][HandleTimeoutStep
     => /\ C14_Advanced
        /\ (~(taskQueue' # <<>> /\ ~isHostCallbackScheduled)
            /\ timerQueue' # <<>>) => Rearmed
        /\ (~(taskQueue' # <<>> /\ ~isHostCallbackScheduled)
            /\ timerQueue' = <<>>)
             => ~isHostTimeoutScheduled' /\ hostTimers' = {}]_vars

\* C14 (amended): the same, but the timeout is re-armed only when no host
\* callback is scheduled and the ready queue is empty; when a host callback
\* is already scheduled handleTimeout arms nothing and leaves the flag
\* cleared.
C14_HandleTimeoutUnlessScheduled ==
  [][HandleTimeoutStep
     => /\ C14_Advanced
        /\ (~isHostCallbackScheduled /\ taskQueue' = <<>>
            /\ timerQueue' # <<>>) => Rearmed
        /\ (isHostCallbackScheduled \/ timerQueue' = <<>>)
             => ~isHostTimeoutScheduled' /\ hostTimers' = {}
        /\ isHostCallbackScheduled
             => /\ isHostCallbackScheduled'
                /\ scheduledHostCallback' = scheduledHostCallback]_vars

\* handleTimeout promoted a due task and requested the host callback while
\* another delayed task, not yet due, was left waiting
C14_Witness ==
  /\ flushCount = 0
  /\ DOMAIN promotedAt # {}
  /\ isHostCallbackScheduled
  /\ scheduledHostCallback = "flushWork"
  /\ timerQueue # <<>>
  /\ tasks[peek(timerQueue)].callback # NoCallback
  /\ hostTimers = {}

\* a flush has just stopped before a ready root without a throw and without
\* a continuation being returned: it stopped at the yield check
StoppedAtYieldCheck ==
  /\ flushCount' > flushCount
  /\ hostErrors' = hostErrors
  /\ taskQueue' # <<>>
  /\ ~Ended("function")

\* C15: the work loop stops at the yield check only before a root that is
\* not overdue (expirationTime > currentTime, the clock read after the last
\* callback) and with the slice used up; an overdue root is processed in the
\* current flush however much of the slice has elapsed.
C15_OverdueNotYielded ==
  [][StoppedAtYieldCheck
     => /\ tasks'[peek(taskQueue')].expirationTime > now'
        /\ startTime' # undefined
        /\ now' - startTime' >= frameInterval]_vars

\* an overdue task was invoked in the same flush as a callback that had used
\* up the slice before it
C15_Witness ==
  \E i, j \in 1..Len(log) :
    /\ i < j
    /\ log[i].flush = log[j].flush
    /\ log[i].fn = "slow"
    /\ log[j].slice # undefined
    /\ Elapsed(j) >= frameInterval
    /\ tasks[log[j].task].expirationTime <= log[j].time

\* the number of places a task holds in a queue
Places(heap, task) == Cardinality({i \in 1..Len(heap) : heap[i] = task})

\* C16: a task occurs at most once in the delayed and the ready queue
\* together; in the delayed queue its sortIndex is its startTime, in the
\* ready queue its expirationTime; a task whose callback returned no
\* function while the task was the ready root is in neither queue.
C16_QueueMembership ==
  /\ \A task \in Tasks :
       /\ Places(timerQueue, task) + Places(taskQueue, task) <= 1
       /\ InQueue(timerQueue, task)
            => tasks[task].sortIndex = tasks[task].startTime
       /\ InQueue(taskQueue, task)
            => tasks[task].sortIndex = tasks[task].expirationTime
  /\ \A i \in 1..Len(log) :
       (Outcome(log[i].fn) = "undefined" /\ log[i].root)
       => ~InQueue(taskQueue, log[i].task) /\ ~InQueue(timerQueue, log[i].task)
  /\ \A i \in 1..Len(taskQueue) : taskQueue[i] \in Tasks
  /\ \A i \in 1..Len(timerQueue) : timerQueue[i] \in Tasks

\* a task finished as the ready root and is in no queue, while a delayed
\* Idle task has been promoted and waits in the ready queue
C16_Witness ==
  \E done, task \in Tasks :
    /\ \E i \in 1..Len(log) :
         log[i].task = done /\ log[i].root /\ Outcome(log[i].fn) = "undefined"
    /\ task \in DOMAIN promotedAt
    /\ InQueue(taskQueue, task)
    /\ tasks[task].expirationTime # tasks[task].startTime

\* the tasks of the delayed queue that advanceTimers(t) has to promote
Due(t) ==
  {task \in Tasks : /\ InQueue(timerQueue, task)
                    /\ tasks[task].callback # NoCallback
                    /\ tasks[task].startTime <= t}

\* C17: in every reachable state and for every time t, advanceTimers(t)
\* leaves no uncancelled task with startTime <= t in the delayed queue and
\* has put every such task in the ready queue; and a step takes a task from
\* the delayed queue to the ready queue only through advanceTimers (which
\* records the promotion).
C17_AdvanceTimersComplete ==
  /\ [](\A t \in 0..(now + 2) :
          \E r \in {advanceTimers(State, t)} :
            /\ \A i \in 1..Len(r.timerQueue) :
                 \/ r.tasks[r.timerQueue[i]].callback = NoCallback
                 \/ r.tasks[r.timerQueue[i]].startTime > t
            /\ \A task \in Due(t) :
                 /\ InQueue(r.taskQueue, task)
                 /\ ~InQueue(r.timerQueue, task)
            /\ \A task \in Tasks \ Due(t) :
                 InQueue(r.taskQueue, task) <=> InQueue(taskQueue, task))
  /\ [][\A task \in Tasks :
          (InQueue(timerQueue, task) /\ InQueue(taskQueue', task))
          => /\ task \notin DOMAIN promotedAt
             /\ task \in DOMAIN promotedAt'
             /\ ~(ScheduleCallback \/ CancelCallback \/ Tick)]_vars

\* advanceTimers promoted a task and stopped at a root that was not yet due,
\* which is still waiting
C17_Witness ==
  \E a \in DOMAIN promotedAt, b \in Tasks :
    /\ InQueue(timerQueue, b)
    /\ tasks[b].callback # NoCallback
    /\ tasks[b].startTime > promotedAt[a]
    /\ tasks[a].startTime <= promotedAt[a]

\* C18: between the scheduler's functions, isHostTimeoutScheduled is true
\* exactly when a host timeout is outstanding (armed by requestHostTimeout,
\* neither fired nor cleared).
C18_FlagIffTimer ==
  isHostTimeoutScheduled <=> hostTimers # {}

\* C19: once cancelCallback(task) has been called the task's callback slot
\* stays empty and no callback or continuation of the task is invoked
\* afterwards, also when the call is made from inside the task's own
\* callback, which then returns a function.
C19_CancelStaysCancelled ==
  /\ [][\A task \in Tasks :
          (Cancel(task) => tasks'[task].callback = NoCallback)
          /\ (tasks[task].callback = NoCallback
                => tasks'[task].callback = NoCallback)]_vars
  /\ [](\A i \in 1..Len(log) :
          log[i].fn = "cancelcont"
          => /\ tasks[log[i].task].callback = NoCallback
             /\ \A j \in (i + 1)..Len(log) : log[j].task # log[i].task)

\* C20: each callback function installed in a task is invoked at most once:
\* a task is not invoked again after a callback of it returned no function
\* (or threw), and after a callback returned a function only that
\* continuation is invoked, once.  A task that was not the ready root when
\* its callback returned no function (a task submitted by the callback had
\* taken the root) keeps an empty slot while it stays in the ready queue.
C20_InvokedAtMostOnce ==
  /\ \A i, j \in 1..Len(log) :
       (i < j /\ log[i].task = log[j].task)
       => /\ Outcome(log[i].fn) = "function"
          /\ log[j].fn = "resume"
          /\ log[i].fn # "resume"
  /\ \A i \in 1..Len(log) :
       (Outcome(log[i].fn) = "undefined" /\ ~log[i].root)
       => tasks[log[i].task].callback = NoCallback

\* a callback submitted a task that took the ready root and returned no
\* function; the submitted task ran next in the same flush, and the first
\* task has since been discarded, invoked once
C20_Witness ==
  \E i, j \in 1..Len(log) :
    /\ i < j
    /\ log[i].fn = "spawn"
    /\ ~log[i].root
    /\ log[j].task > log[i].task
    /\ log[j].task \notin log[i].ready
    /\ log[j].flush = log[i].flush
    /\ KeyLess(log[j].task, log[i].task)
    /\ ~InQueue(taskQueue, log[i].task)
    /\ Cardinality(Invocations(log[i].task)) = 1

====
